---- MODULE Spec2Model ----
(***************************************************************************)
(* A model of the protopiler of ot2_driver: the recipe post-processing     *)
(* (_postprocess_commands), the broadcasting of one instruction block      *)
(* (_process_instruction), the command generation with its per-mount tip   *)
(* state (_create_commands) and the compilation entry point                *)
(* (yaml_to_protocol) with the resource file it reads and writes.          *)
(***************************************************************************)
EXTENDS Integers, Sequences, FiniteSets, TLC

VARIABLES
    pc,             \* position of the caller: which operation ran last
    config,         \* self.config and self.config_path
    commands,       \* self.commands: the loaded instruction blocks
    resources,      \* self.resources: the loaded resource tables
    resource_file,  \* self.resource_file: "None" or a path
    rm,             \* self.resource_manager: the deck and its counters
    files,          \* the resource files on disk: path -> snapshot
    blk,            \* _create_commands: index i of the block being compiled
    pending,        \* _create_commands: transfers the generator still yields
    tip_loaded,     \* _create_commands: tip_loaded, per mount
    out,            \* _create_commands: the actions emitted so far
    err,            \* the exception that ended the operation, or "none"
    args,           \* yaml_to_protocol: the arguments of the call in progress
    artifact,       \* the protocol file on disk
    deck,           \* which deck the robot has and every recipe's equipment
                    \* describes: "A" or "B"
    lookups,        \* the table columns _postprocess_commands asked for (observer)
    hist            \* what earlier compilations picked, wrote and returned, the
                    \* recipe load_config was last given, and the commands
                    \* as the running compilation found them (observer)

vars == <<pc, config, commands, resources, resource_file, rm, files, blk,
          pending, tip_loaded, out, err, args, artifact, deck, lookups, hist>>

-----------------------------------------------------------------------------
(* Python values.  A field of a command is an int, a str or a list; every  *)
(* value carries all three payloads so that any two values are comparable. *)
(* A str is the sequence of its characters.                                *)

IntV(n) == [t |-> "int", n |-> n, s |-> <<>>, l |-> <<>>]
StrV(s) == [t |-> "str", n |-> 0, s |-> s, l |-> <<>>]
ListV(l) == [t |-> "list", n |-> 0, s |-> <<>>, l |-> l]

\* isinstance(x, list)
IsList(x) == x.t = "list"

\* len(x) of a list or of a str (the number of its characters)
len(x) == IF x.t = "list" THEN Len(x.l) ELSE Len(x.s)

Digits == {"0", "1", "2", "3", "4", "5", "6", "7", "8", "9"}

\* str.isdigit(): non-empty and all characters are digits
isdigit(s) == Len(s) > 0 /\ \A k \in 1..Len(s) : s[k] \in Digits

\* s[1:]
Rest(s) == SubSeq(s, 2, Len(s))

Min(a, b) == IF a < b THEN a ELSE b

\* str.split(sep): the segments between the occurrences of sep, empty
\* segments included
RECURSIVE SplitFrom(_, _, _)
SplitFrom(s, sep, cur) ==
    IF s = <<>> THEN <<cur>>
    ELSE IF Len(s) >= Len(sep) /\ SubSeq(s, 1, Len(sep)) = sep
    THEN <<cur>> \o SplitFrom(SubSeq(s, Len(sep) + 1, Len(s)), sep, <<>>)
    ELSE SplitFrom(Tail(s), sep, Append(cur, Head(s)))

split(s, sep) == SplitFrom(s, sep, <<>>)

Colon == <<":">>

Last(q) == q[Len(q)]

\* c.join(parts)
RECURSIVE join(_, _)
join(c, parts) ==
    IF parts = <<>> THEN <<>>
    ELSE IF Len(parts) = 1 THEN parts[1]
    ELSE parts[1] \o c \o join(c, Tail(parts))

\* sub in s, for strings
Contains(s, sub) ==
    \E k \in 1..(Len(s) - Len(sub) + 1) : SubSeq(s, k, k + Len(sub) - 1) = sub

\* str.strip(chars): drop the leading and trailing characters that are in chars
RECURSIVE lstrip(_, _)
lstrip(s, chars) ==
    IF s # <<>> /\ Head(s) \in chars THEN lstrip(Tail(s), chars) ELSE s

RECURSIVE rstrip(_, _)
rstrip(s, chars) ==
    IF s # <<>> /\ Last(s) \in chars
    THEN rstrip(SubSeq(s, 1, Len(s) - 1), chars) ELSE s

\* only the leading characters are dropped
StripLeft(s, chars) == lstrip(s, chars)

strip(s, chars) == rstrip(lstrip(s, chars), chars)

DigitVal ==
    [c \in Digits |->
        CASE c = "0" -> 0 [] c = "1" -> 1 [] c = "2" -> 2 [] c = "3" -> 3
          [] c = "4" -> 4 [] c = "5" -> 5 [] c = "6" -> 6 [] c = "7" -> 7
          [] c = "8" -> 8 [] c = "9" -> 9]

\* int(s) of a string of decimal digits
RECURSIVE ParseDigits(_, _)
ParseDigits(s, acc) ==
    IF s = <<>> THEN acc
    ELSE ParseDigits(Tail(s), acc * 10 + DigitVal[Head(s)])

-----------------------------------------------------------------------------
(* _process_instruction: the broadcasting of one command block.            *)

\* itertools.repeat(x, n) when x is no list, the list itself otherwise
repeat(x, n) == [k \in 1..n |-> x]

\* a repetition that stops one short
OperandShort(x, iter_len) ==
    IF IsList(x) THEN x.l ELSE repeat(x, iter_len - 1)

Operand(x, iter_len) == IF IsList(x) THEN x.l ELSE repeat(x, iter_len)

\* zip(volumes, sources, destinations): as long as the shortest operand
zip(volumes, sources, destinations) ==
    [k \in 1..Min(Len(volumes), Min(Len(sources), Len(destinations))) |->
        <<volumes[k], sources[k], destinations[k]>>]

\* lines 582-593: the operands of the zip
Volumes(r) == Operand(r.block.volume, r.iter_len)
Sources(r) == Operand(r.block.source, r.iter_len)
Destinations(r) == Operand(r.block.destination, r.iter_len)

\* The steps below pass on r: the command block as assigned so far,
\* iter_len, and whether an exception was raised.

\* lines 555-560: the volume; a list of one value becomes that value
VolumeStep(r) ==
    IF IsList(r.block.volume)
    THEN IF len(r.block.volume) = 1
         THEN [r EXCEPT !.block.volume = @.l[1]]
         ELSE [r EXCEPT !.iter_len = len(r.block.volume)]
    ELSE r

\* lines 561-570: the source; iter_len is taken from the field after it may
\* have been replaced by its only element
SourceStep(r) ==
    IF r.raised \/ ~IsList(r.block.source) THEN r
    ELSE IF r.iter_len # 0 /\ len(r.block.source) # r.iter_len
    THEN IF len(r.block.source) = 1
         THEN [r EXCEPT !.block.source = @.l[1],
                        !.iter_len = len(r.block.source.l[1])]
         ELSE [r EXCEPT !.raised = TRUE]
    ELSE [r EXCEPT !.iter_len = len(r.block.source)]

\* lines 571-580: the destination, likewise
DestinationStep(r) ==
    IF r.raised \/ ~IsList(r.block.destination) THEN r
    ELSE IF r.iter_len # 0 /\ len(r.block.destination) # r.iter_len
    THEN IF len(r.block.destination) = 1
         THEN [r EXCEPT !.block.destination = @.l[1],
                        !.iter_len = len(r.block.destination.l[1])]
         ELSE [r EXCEPT !.raised = TRUE]
    ELSE [r EXCEPT !.iter_len = len(r.block.destination)]

\* lines 582-596: the transfers the generator yields
Yielded(r) ==
    [transfers |-> IF r.raised THEN <<>>
                   ELSE zip(Volumes(r), Sources(r), Destinations(r)),
     raised |-> r.raised,
     block |-> r.block]

\* lines 537-596.  The generator run to its end: the transfers it yields,
\* whether it raised, and the command block as it leaves it (the fields
\* are assigned in place).
_process_instruction(command_block) ==
    IF /\ command_block.volume.t = "int"
       /\ command_block.source.t = "str"
       /\ command_block.destination.t = "str"
    THEN [transfers |-> << <<command_block.volume, command_block.source,
                             command_block.destination>> >>,
          raised |-> FALSE,
          block |-> command_block]
    ELSE Yielded(DestinationStep(SourceStep(VolumeStep(
             [block |-> command_block, iter_len |-> 0, raised |-> FALSE]))))

-----------------------------------------------------------------------------
(* _unpack_alias and _postprocess_commands.                                *)

\* lines 161-180: "alias:[A1, B2]" becomes ["alias:A1", "alias:B2"]
_unpack_alias(command_elem) ==
    LET alias == split(command_elem, Colon)[1]
        process_source ==
            split(strip(join(Colon, Tail(split(command_elem, Colon))),
                        {"]", "["}),
                  <<",", " ">>)
        kept == SelectSeq(process_source, LAMBDA location : Len(location) # 0)
    IN  [k \in 1..Len(kept) |->
            IF ~Contains(kept[k], Colon)
            THEN StrV(alias \o Colon \o kept[k])
            ELSE StrV(kept[k])]

\* lines 182-198: self.resources is emptied and then tested before it is
\* filled, so no table is ever read
load_resources(tables) ==
    LET emptied == <<>>
    IN  IF emptied # <<>> THEN tables ELSE emptied

\* line 123: the segment is taken for a column name of the resource table
IsColumnName(peek_well) == ~isdigit(peek_well) /\ ~isdigit(Rest(peek_well))

\* lines 111-112 and 134-135: ":[" in field
HasBracket(field) ==
    IF field.t = "str" THEN Contains(field.s, <<":", "[">>)
    ELSE \E k \in 1..Len(field.l) : field.l[k] = StrV(<<":", "[">>)

\* the table column named column, or 0 when the table has none
ColumnOf(table, column) ==
    IF \E c \in 1..Len(table) : table[c].column = column
    THEN CHOOSE c \in 1..Len(table) : table[c].column = column
    ELSE 0

\* lines 125-130 and 145-150: one new location per row, each under the
\* alias the field starts with
NewLocations(field, rows) ==
    ListV([k \in 1..Len(rows) |->
              StrV(split(field.s, Colon)[1] \o Colon \o rows[k])])

\* The steps below pass on r: the command as assigned so far, the
\* exception raised, the columns asked for, peek_well, and the tables.

\* lines 111-112
UnpackSource(r) ==
    IF ~HasBracket(r.command.source) THEN r
    ELSE IF IsList(r.command.source)
    THEN [r EXCEPT !.raised = "AttributeError"]
    ELSE [r EXCEPT !.command.source = ListV(_unpack_alias(@.s))]

\* lines 116-120: peek_well, the last segment of the source or of its first
\* element
PeekSource(r) ==
    IF r.raised # "none" THEN r
    ELSE IF IsList(r.command.source)
    THEN IF len(r.command.source) = 0
         THEN [r EXCEPT !.raised = "IndexError"]
         ELSE [r EXCEPT !.peek_well =
                   Last(split(r.command.source.l[1].s, Colon))]
    ELSE [r EXCEPT !.peek_well = Last(split(r.command.source.s, Colon))]

\* lines 123-132
ReadSource(r) ==
    IF r.raised # "none" \/ ~IsColumnName(r.peek_well) THEN r
    ELSE IF r.res = <<>>
    THEN [r EXCEPT !.raised = "UnboundLocalError",
                   !.asked = Append(@, [field |-> "source",
                                        column |-> r.peek_well])]
    ELSE IF ColumnOf(r.res[1].table, r.peek_well) = 0
    THEN [r EXCEPT !.raised = "KeyError",
                   !.asked = Append(@, [field |-> "source",
                                        column |-> r.peek_well])]
    ELSE IF IsList(r.command.source)
            /\ r.res[1].table[ColumnOf(r.res[1].table, r.peek_well)].rows # <<>>
    THEN [r EXCEPT !.raised = "AttributeError",
                   !.asked = Append(@, [field |-> "source",
                                        column |-> r.peek_well])]
    ELSE [r EXCEPT
            !.command.source = NewLocations(@,
                r.res[1].table[ColumnOf(r.res[1].table, r.peek_well)].rows),
            !.asked = Append(@, [field |-> "source", column |-> r.peek_well])]

\* lines 134-135
UnpackDestination(r) ==
    IF r.raised # "none" \/ ~HasBracket(r.command.destination) THEN r
    ELSE IF IsList(r.command.destination)
    THEN [r EXCEPT !.raised = "AttributeError"]
    ELSE [r EXCEPT !.command.destination = ListV(_unpack_alias(@.s))]

\* lines 139-141: peek_elem of the destination; peek_well is not assigned
PeekDestination(r) ==
    IF r.raised # "none" THEN r
    ELSE IF IsList(r.command.destination) /\ len(r.command.destination) = 0
    THEN [r EXCEPT !.raised = "IndexError"]
    ELSE r

\* lines 143-152: line 143 tests peek_well, which line 120 took from the
\* source
ReadDestination(r) ==
    IF r.raised # "none" \/ ~IsColumnName(r.peek_well) THEN r
    ELSE IF r.res = <<>>
    THEN [r EXCEPT !.raised = "UnboundLocalError",
                   !.asked = Append(@, [field |-> "destination",
                                        column |-> r.peek_well])]
    ELSE IF ColumnOf(r.res[1].table, r.peek_well) = 0
    THEN [r EXCEPT !.raised = "KeyError",
                   !.asked = Append(@, [field |-> "destination",
                                        column |-> r.peek_well])]
    ELSE IF IsList(r.command.destination)
            /\ r.res[1].table[ColumnOf(r.res[1].table, r.peek_well)].rows # <<>>
    THEN [r EXCEPT !.raised = "AttributeError",
                   !.asked = Append(@, [field |-> "destination",
                                        column |-> r.peek_well])]
    ELSE [r EXCEPT
            !.command.destination = NewLocations(@,
                r.res[1].table[ColumnOf(r.res[1].table, r.peek_well)].rows),
            !.asked = Append(@, [field |-> "destination",
                                 column |-> r.peek_well])]

\* lines 111-152: the body of the loop for one command
ProcessCommand(command, res) ==
    ReadDestination(PeekDestination(UnpackDestination(
        ReadSource(PeekSource(UnpackSource(
            [command |-> command, raised |-> "none", asked |-> <<>>,
             peek_well |-> <<>>, res |-> res]))))))

\* the columns one command asked for, with the number of the command
Tagged(one, k) ==
    [j \in 1..Len(one.asked) |->
        [block |-> k, field |-> one.asked[j].field,
         column |-> one.asked[j].column]]

\* lines 110-152: the loop over self.commands, from command k on; acc is
\* the commands as assigned so far, the exception raised, the columns asked
RECURSIVE ProcessCommands(_, _)
LoopStep(acc, k, one) ==
    IF one.raised # "none"
    THEN [commands |-> [acc.commands EXCEPT ![k] = one.command],
          raised |-> one.raised, asked |-> acc.asked \o Tagged(one, k),
          res |-> acc.res]
    ELSE ProcessCommands(
             [commands |-> [acc.commands EXCEPT ![k] = one.command],
              raised |-> "none", asked |-> acc.asked \o Tagged(one, k),
              res |-> acc.res],
             k + 1)

ProcessCommands(acc, k) ==
    IF k > Len(acc.commands) THEN acc
    ELSE LoopStep(acc, k, ProcessCommand(acc.commands[k], acc.res))

\* which commands get their volume read from the table: lines 154-159 stand
\* after the loop, where command is the last one the loop visited
VolumeCommands(cmds) == {Len(cmds)}

\* lines 156-157: int(vol) of every row
IntVolumes(rows) == ListV([k \in 1..Len(rows) |-> IntV(ParseDigits(rows[k], 0))])

\* lines 154-159: a volume that is neither int nor list names a column
ResolveVolume(acc, k) ==
    IF acc.raised # "none" \/ acc.commands[k].volume.t # "str" THEN acc
    ELSE IF acc.res = <<>> THEN [acc EXCEPT !.raised = "UnboundLocalError"]
    ELSE IF ColumnOf(acc.res[1].table, acc.commands[k].volume.s) = 0
    THEN [acc EXCEPT !.raised = "KeyError"]
    ELSE IF \E j \in 1..Len(acc.res[1].table[
                 ColumnOf(acc.res[1].table, acc.commands[k].volume.s)].rows) :
               ~isdigit(acc.res[1].table[
                 ColumnOf(acc.res[1].table, acc.commands[k].volume.s)].rows[j])
    THEN [acc EXCEPT !.raised = "ValueError"]
    ELSE [acc EXCEPT !.commands[k].volume =
            IntVolumes(acc.res[1].table[ColumnOf(acc.res[1].table, @.s)].rows)]

RECURSIVE ResolveVolumes(_, _, _)
ResolveVolumes(acc, todo, k) ==
    IF k > Len(acc.commands) THEN acc
    ELSE IF k \notin todo THEN ResolveVolumes(acc, todo, k + 1)
    ELSE ResolveVolumes(ResolveVolume(acc, k), todo, k + 1)

\* lines 153-159, after the loop
AfterLoop(acc) ==
    IF acc.raised # "none" THEN acc
    ELSE IF acc.commands = <<>> THEN [acc EXCEPT !.raised = "NameError"]
    ELSE ResolveVolumes(acc, VolumeCommands(acc.commands), 1)

\* lines 85-159
_postprocess_commands(cmds, res) ==
    AfterLoop(ProcessCommands(
        [commands |-> cmds, raised |-> "none", asked |-> <<>>, res |-> res], 1))

-----------------------------------------------------------------------------
(* The deck and the ResourceManager (resource_manager.py).                 *)

MaxLen == 3         \* longest list in a field of a command
MaxBlocks == 2      \* most command blocks in a recipe
MaxRuns == 2        \* most constructions and most compilations in a behaviour
TipCapacity == 2    \* wells of a tip rack

Mounts == {"left", "right"}

WellplateName == <<"w", "e", "l", "l", "p", "l", "a", "t", "e">>
TiprackName == <<"t", "i", "p", "r", "a", "c", "k">>
ReservoirName == <<"r", "e", "s", "e", "r", "v", "o", "i", "r">>

\* two pipettes with a rack each
DeckA ==
    [labware |->
        << [slot |-> "1", name |-> WellplateName, alias |-> <<"p">>, tips |-> "none"],
           [slot |-> "2", name |-> WellplateName, alias |-> <<"q">>, tips |-> "none"],
           [slot |-> "3", name |-> TiprackName, alias |-> <<"t">>, tips |-> "20ul"],
           [slot |-> "4", name |-> TiprackName, alias |-> <<"u">>, tips |-> "300ul"] >>,
     pipettes |->
        [left |-> [name |-> "p20", min_volume |-> 1, max_volume |-> 20,
                   tips |-> "20ul"],
         right |-> [name |-> "p300", min_volume |-> 20, max_volume |-> 300,
                    tips |-> "300ul"]]]

\* two pipettes that take their tips from the same two racks
DeckB ==
    [labware |->
        << [slot |-> "1", name |-> WellplateName, alias |-> <<"p">>, tips |-> "none"],
           [slot |-> "2", name |-> WellplateName, alias |-> <<"q">>, tips |-> "none"],
           [slot |-> "3", name |-> TiprackName, alias |-> <<"t">>, tips |-> "300ul"],
           [slot |-> "4", name |-> TiprackName, alias |-> <<"u">>, tips |-> "300ul"] >>,
     pipettes |->
        [left |-> [name |-> "p50", min_volume |-> 5, max_volume |-> 50,
                   tips |-> "300ul"],
         right |-> [name |-> "p300", min_volume |-> 20, max_volume |-> 300,
                    tips |-> "300ul"]]]

\* the deck of DeckA with reservoirs where it has wellplates: no labware
\* name contains "well"
DeckC ==
    [labware |->
        << [slot |-> "1", name |-> ReservoirName, alias |-> <<"p">>, tips |-> "none"],
           [slot |-> "2", name |-> ReservoirName, alias |-> <<"q">>, tips |-> "none"],
           [slot |-> "3", name |-> TiprackName, alias |-> <<"t">>, tips |-> "20ul"],
           [slot |-> "4", name |-> TiprackName, alias |-> <<"u">>, tips |-> "300ul"] >>,
     pipettes |-> DeckA.pipettes]

Decks == {"A", "B"}
DeckOf(name) ==
    IF name = "A" THEN DeckA ELSE IF name = "B" THEN DeckB ELSE DeckC
Deck == DeckOf(deck)

RackSlots(d) ==
    {d.labware[k].slot : k \in {j \in 1..Len(d.labware) : d.labware[j].tips # "none"}}

\* a fresh manager: all counters at zero
FreshState(d) ==
    [tip_cursor |-> [r \in RackSlots(d) |-> 0], well_usage |-> {}]

\* find_valid_tipracks: the slots of the racks that fit the pipette, in slot order
find_valid_tipracks(d, pipette_mount) ==
    LET fits == SelectSeq(d.labware,
                    LAMBDA lw : lw.tips = d.pipettes[pipette_mount].tips)
    IN  [k \in 1..Len(fits) |-> fits[k].slot]

\* get_next_tip: the first fitting rack with an unconsumed well; its cursor
\* advances by one
get_next_tip(state, d, pipette_mount) ==
    LET racks == find_valid_tipracks(d, pipette_mount)
        free == {k \in 1..Len(racks) : state.tip_cursor[racks[k]] < TipCapacity}
    IN  IF free = {}
        THEN [raised |-> TRUE, rack |-> "None", well |-> 0, state |-> state]
        ELSE LET k == CHOOSE j \in free : \A h \in free : j <= h
                 rack == racks[k]
             IN  [raised |-> FALSE, rack |-> rack,
                  well |-> state.tip_cursor[rack],
                  state |-> [state EXCEPT !.tip_cursor[rack] = @ + 1]]

\* determine_pipette: the mount whose range covers the volume, the smallest
\* max_volume first; "None" when no range covers it
determine_pipette(d, volume) ==
    LET covers == {m \in Mounts : /\ d.pipettes[m].min_volume <= volume.n
                                  /\ volume.n <= d.pipettes[m].max_volume}
    IN  IF volume.t # "int" THEN [raised |-> TRUE, mount |-> "None"]
        ELSE IF covers = {} THEN [raised |-> FALSE, mount |-> "None"]
        ELSE [raised |-> FALSE,
              mount |-> CHOOSE m \in covers :
                  \A o \in covers :
                      \/ d.pipettes[m].max_volume < d.pipettes[o].max_volume
                      \/ /\ d.pipettes[m].max_volume = d.pipettes[o].max_volume
                         /\ (m = "left" \/ o = "right")]

\* update_well_usage: one more use of the well
update_well_usage(state, location, well) ==
    LET old == {u \in state.well_usage : u.slot = location /\ u.well = well}
        n == IF old = {} THEN 0 ELSE (CHOOSE u \in old : TRUE).n
    IN  [state EXCEPT !.well_usage =
            (@ \ old) \cup {[slot |-> location, well |-> well, n |-> n + 1]}]

\* alias_to_location[plate]
alias_to_location(d, plate) ==
    IF \E k \in 1..Len(d.labware) : d.labware[k].alias = plate
    THEN [raised |-> FALSE,
          location |-> d.labware[CHOOSE k \in 1..Len(d.labware) :
                                     d.labware[k].alias = plate].slot]
    ELSE [raised |-> TRUE, location |-> "None"]

\* labware_to_location.items(): each labware name with the slots that hold it
labware_to_location(d) ==
    LET first == {k \in 1..Len(d.labware) :
                     \A j \in 1..(k - 1) : d.labware[j].name # d.labware[k].name}
        names == SelectSeq([k \in 1..Len(d.labware) |->
                               [idx |-> k, name |-> d.labware[k].name]],
                           LAMBDA e : e.idx \in first)
    IN  [k \in 1..Len(names) |->
            [name |-> names[k].name,
             loc |-> LET same == SelectSeq(d.labware,
                                     LAMBDA lw : lw.name = names[k].name)
                     IN  [j \in 1..Len(same) |-> same[j].slot]]]

\* ResourceManager(equipment, resource_file): restored from the file when
\* one is given and exists, fresh otherwise
ResourceManager(d, path, disk) ==
    IF path # "None" /\ disk[path].exists
    THEN [tip_cursor |-> disk[path].tip_cursor,
          well_usage |-> disk[path].well_usage]
    ELSE FreshState(d)

\* dump_resource_json(out_file): the full state, to out_file or to a generated name
dump_resource_json(state, out_file, disk) ==
    LET path == IF out_file = "None" THEN "generated" ELSE out_file
    IN  [disk EXCEPT ![path] = [exists |-> TRUE, tip_cursor |-> state.tip_cursor,
                                well_usage |-> state.well_usage]]

-----------------------------------------------------------------------------
(* _parse_wellplate_location and one pass of the loop of _create_commands. *)

\* "well" in name
NameHasWell(name) == Contains(name, <<"w", "e", "l", "l">>)

\* lines 466-514
_parse_wellplate_location(d, command_location) ==
    IF Contains(command_location, Colon)
    THEN IF Len(split(command_location, Colon)) # 2
         THEN [raised |-> TRUE, location |-> "None"]
         ELSE alias_to_location(d, split(command_location, Colon)[1])
    ELSE LET items == labware_to_location(d)
             wells == {k \in 1..Len(items) :
                          NameHasWell(items[k].name) /\ Len(items[k].loc) >= 1}
         IN  IF wells = {}
             THEN [raised |-> FALSE, location |-> "None"]
             ELSE [raised |-> FALSE,
                   location |-> items[CHOOSE k \in wells :
                                         \A j \in wells : j <= k].loc[1]]

PickTip(mount, rack, index) ==
    [a |-> "PickTip", mount |-> mount, slot |-> rack, well |-> <<>>,
     index |-> index, volume |-> 0]
Aspirate(mount, slot, well, volume) ==
    [a |-> "Aspirate", mount |-> mount, slot |-> slot, well |-> well,
     index |-> 0, volume |-> volume]
Dispense(mount, slot, well, volume) ==
    [a |-> "Dispense", mount |-> mount, slot |-> slot, well |-> well,
     index |-> 0, volume |-> volume]
DropTip(mount) ==
    [a |-> "DropTip", mount |-> mount, slot |-> "None", well |-> <<>>,
     index |-> 0, volume |-> 0]

\* a tip is picked for every transfer
NeedsTipAlways(loaded, mount) == TRUE

\* line 386: a tip is picked when the mount has none
NeedsTip(loaded, mount) == ~loaded[mount]

\* a drop empties both mounts
AfterTransferBoth(loaded, mount, drop_tip) ==
    IF drop_tip THEN [m \in Mounts |-> FALSE] ELSE loaded

\* lines 448-453: the mount's tip state after the transfer
AfterTransfer(loaded, mount, drop_tip) ==
    IF drop_tip THEN [loaded EXCEPT ![mount] = FALSE] ELSE loaded

\* The steps below pass on st: the resource manager, tip_loaded, the
\* commands emitted so far, the exception raised, and pipette_mount.

\* lines 379-383
ChoosePipette(st, d, volume) ==
    IF determine_pipette(d, volume).raised THEN [st EXCEPT !.raised = "TypeError"]
    ELSE IF determine_pipette(d, volume).mount = "None"
    THEN [st EXCEPT !.raised = "NoPipette"]
    ELSE [st EXCEPT !.mount = determine_pipette(d, volume).mount]

\* lines 395-411: the next tip is picked
TakeTip(st, tip) ==
    IF tip.raised THEN [st EXCEPT !.raised = "NoTip"]
    ELSE [st EXCEPT !.rm = tip.state,
                    !.out = Append(@, PickTip(st.mount, tip.rack, tip.well)),
                    !.tip_loaded[st.mount] = TRUE]

\* lines 385-411
LoadTip(st, d) ==
    IF st.raised # "none" \/ ~NeedsTip(st.tip_loaded, st.mount) THEN st
    ELSE TakeTip(st, get_next_tip(st.rm, d, st.mount))

\* lines 416-429, with the location line 414 found
AspirateAt(st, loc, src_well, volume) ==
    IF loc.raised THEN [st EXCEPT !.raised = "Location"]
    ELSE [st EXCEPT
            !.out = Append(@, Aspirate(st.mount, loc.location, src_well, volume.n)),
            !.rm = update_well_usage(@, loc.location, src_well)]

\* lines 413-429
EmitAspirate(st, d, volume, src) ==
    IF st.raised # "none" THEN st
    ELSE AspirateAt(st, _parse_wellplate_location(d, src.s),
                    Last(split(src.s, Colon)), volume)

\* lines 432-446, with the location line 431 found
DispenseAt(st, loc, dst_well, volume) ==
    IF loc.raised THEN [st EXCEPT !.raised = "Location"]
    ELSE [st EXCEPT
            !.out = Append(@, Dispense(st.mount, loc.location, dst_well, volume.n)),
            !.rm = update_well_usage(@, loc.location, dst_well)]

\* lines 431-446
EmitDispense(st, d, volume, dst) ==
    IF st.raised # "none" THEN st
    ELSE DispenseAt(st, _parse_wellplate_location(d, dst.s),
                    Last(split(dst.s, Colon)), volume)

\* lines 448-453
EmitDrop(st, drop_tip) ==
    IF st.raised # "none" THEN st
    ELSE [st EXCEPT !.out = IF drop_tip THEN Append(@, DropTip(st.mount)) ELSE @,
                    !.tip_loaded = AfterTransfer(@, st.mount, drop_tip)]

\* lines 378-455: the body of the inner loop for the transfer t
TransferStep(st, d, t, drop_tip) ==
    EmitDrop(EmitDispense(EmitAspirate(LoadTip(ChoosePipette(st, d, t[1]), d),
                                       d, t[1], t[2]),
                          d, t[1], t[3]),
             drop_tip)

\* no drop after the last block
TrailingDropsNone(loaded) == <<>>

\* lines 457-462: a drop for every mount that still holds a tip
TrailingDrops(loaded) ==
    (IF loaded["left"] THEN <<DropTip("left")>> ELSE <<>>)
    \o (IF loaded["right"] THEN <<DropTip("right")>> ELSE <<>>)

-----------------------------------------------------------------------------
(* The recipes.                                                            *)

SeqsUpTo(S, n) == UNION {[1..k -> S] : k \in 0..n}

Block(volume, source, destination, drop_tip) ==
    [volume |-> volume, source |-> source, destination |-> destination,
     drop_tip |-> drop_tip]

Tables ==
    << [name |-> "wells",
        table |-> << [column |-> <<"c", "o", "l">>,
                      rows |-> << <<"C", "1">>, <<"C", "2">> >>],
                     [column |-> <<"v", "o", "l">>,
                      rows |-> << <<"5">>, <<"5", "0">> >>] >>] >>

Recipe(cmds) == [given |-> TRUE, commands |-> cmds, resources |-> <<"wells">>]

\* pd.read_excel of the resources the config names
ReadTables(names) == IF names = <<>> THEN <<>> ELSE Tables

pA1 == StrV(<<"p", ":", "A", "1">>)
qB1 == StrV(<<"q", ":", "B", "1">>)

\* volumes 5, 100, 5, ... : the left and the right pipette in turn
AltVolumes(n) == [k \in 1..n |-> IntV(IF k % 2 = 1 THEN 5 ELSE 100)]

CompileBlocks ==
    { Block(IntV(5), pA1, qB1, FALSE),
      Block(IntV(100), pA1, qB1, TRUE),
      Block(ListV(AltVolumes(MaxLen)), pA1, qB1, TRUE),
      Block(IntV(500), pA1, qB1, TRUE) }

Recipes == {Recipe(c) : c \in SeqsUpTo(CompileBlocks, MaxBlocks)}

\* the recipes of one command block
ShortRecipes == {Recipe(<<b>>) : b \in CompileBlocks}

CompileArgs ==
    [resource_file : {"None", "f1"}, resource_file_out : {"None"},
     write_resources : BOOLEAN, overwrite_resources_json : {TRUE},
     reset_when_done : {FALSE}]

\* two recipes to tell apart, and calls that name a recipe and a resource
\* file
CallRecipes ==
    { Recipe(<<Block(IntV(5), pA1, qB1, TRUE)>>),
      Recipe(<<Block(IntV(100), pA1, qB1, TRUE)>>) }

CallArgs ==
    [resource_file : {"None", "f1", "f2"}, resource_file_out : {"None"},
     write_resources : BOOLEAN, overwrite_resources_json : {TRUE},
     reset_when_done : {FALSE}]

\* every way to say where the resource manager goes
DumpArgs ==
    [resource_file : {"None", "f1", "f2"}, resource_file_out : {"None", "f2"},
     write_resources : BOOLEAN, overwrite_resources_json : BOOLEAN,
     reset_when_done : {FALSE}]

DumpRecipes == {Recipe(<<Block(IntV(5), pA1, qB1, TRUE)>>)}

\* locations with and without an alias
SlotBlocks ==
    { Block(IntV(5), pA1, qB1, TRUE),
      Block(IntV(5), StrV(<<"A", "1">>), qB1, TRUE),
      Block(IntV(100), pA1, StrV(<<"B", "1">>), TRUE),
      Block(IntV(5), StrV(<<"z", ":", "A", "1">>), qB1, TRUE) }

SlotRecipes == {Recipe(c) : c \in SeqsUpTo(SlotBlocks, MaxBlocks)}

\* blocks with lists of one element, and a block without a list
AgainBlocks ==
    { Block(ListV(<<IntV(5)>>), pA1, qB1, TRUE),
      Block(IntV(5), ListV(<<pA1>>), qB1, TRUE),
      Block(ListV(AltVolumes(MaxLen)), ListV(<<pA1>>), qB1, TRUE),
      Block(IntV(5), pA1, qB1, TRUE) }

AgainRecipes == {Recipe(c) : c \in SeqsUpTo(AgainBlocks, MaxBlocks)}

\* a block that compiles, and blocks that fail each in its own way: no
\* pipette for the volume, lists of two and of three, a location of three
\* segments, an alias the deck does not know
FailBlocks ==
    { Block(ListV(AltVolumes(MaxLen)), pA1, qB1, TRUE),
      Block(IntV(500), pA1, qB1, TRUE),
      Block(ListV(<<IntV(5), IntV(5)>>), pA1, ListV(<<qB1, qB1, qB1>>), TRUE),
      Block(IntV(5), StrV(<<"p", ":", "x", ":", "A", "1">>), qB1, TRUE),
      Block(IntV(5), pA1, StrV(<<"z", ":", "B", "1">>), TRUE) }

FailRecipes == {Recipe(c) : c \in SeqsUpTo(FailBlocks, MaxBlocks)}

FailArgs ==
    [resource_file : {"None"}, resource_file_out : {"None"},
     write_resources : BOOLEAN, overwrite_resources_json : {TRUE},
     reset_when_done : {FALSE}]

Lists(S) == {ListV(q) : q \in UNION {[1..k -> S] : k \in 1..MaxLen}}

\* the fields as a recipe may write them before _postprocess_commands:
\* wells, column names, bracketed lists under one alias, lists
RawSources ==
    { StrV(<<"p", ":", "A", "1">>),
      StrV(<<"p", ":", "H", "1", "2">>),
      StrV(<<"p", ":", "1", "2">>),
      StrV(<<"p", ":", "A", "1", "2", "3", "4">>),
      StrV(<<"p", ":", "c", "o", "l">>),
      StrV(<<"p", ":", "A">>),
      StrV(<<"A", "1">>),
      StrV(<<"p", ":", "[", "A", "1", ",", " ", "B", "2", "]">>),
      ListV(<<StrV(<<"p", ":", "A", "1">>), StrV(<<"p", ":", "B", "2">>)>>) }
RawDestinations ==
    { StrV(<<"q", ":", "B", "1">>),
      StrV(<<"q", ":", "c", "o", "l">>),
      StrV(<<"q", ":", "[", "B", "1", ",", " ", "q", ":", "C", "3", "]">>),
      ListV(<<StrV(<<"q", ":", "B", "1">>), StrV(<<"q", ":", "C", "3">>)>>) }
RawVolumes ==
    { IntV(5), StrV(<<"v", "o", "l">>), ListV(<<IntV(5), IntV(100)>>) }

\* the elements a bracketed list may hold: wells, a well under an alias of
\* its own, and the empty element a separator without a successor leaves
Elements ==
    { <<"A", "1">>, <<"B", "2">>, <<"r", ":", "C", "3">>, <<>> }
ElementLists ==
    {e \in UNION {[1..k -> Elements] : k \in 1..MaxLen} :
        \E k \in 1..Len(e) : e[k] # <<>>}

\* "alias:[e1, e2, ..., en]" as the recipe writes it
BracketField(alias, elems) ==
    alias \o <<":", "[">> \o join(<<",", " ">>, elems) \o <<"]">>

BracketRecipes ==
    {Recipe(<<Block(IntV(5), StrV(BracketField(<<"p">>, e)), qB1, TRUE)>>) :
        e \in ElementLists}

\* recipes of one command of any of these fields, and recipes of several
\* commands that differ in their volume
RawRecipes ==
    {Recipe(<<Block(v, s, d, TRUE)>>) :
        v \in RawVolumes, s \in RawSources, d \in RawDestinations}
    \cup {Recipe(c) : c \in SeqsUpTo({Block(v, pA1, qB1, TRUE) :
                                        v \in RawVolumes}, MaxBlocks)}

VolumeFields == LET S == {IntV(5), IntV(100)} IN S \cup Lists(S)
SourceFields ==
    LET S == {StrV(<<"A", "1">>), StrV(<<"p", ":", "B", "2">>)}
    IN  S \cup Lists(S)
DestinationFields ==
    LET S == {StrV(<<"B", "1">>), StrV(<<"q", ":", "C", "3">>)}
    IN  S \cup Lists(S)

BroadcastBlocks ==
    {Block(v, s, d, TRUE) :
        v \in VolumeFields, s \in SourceFields, d \in DestinationFields}

-----------------------------------------------------------------------------
(* The compiler object: __init__, load_config, yaml_to_protocol.           *)

Paths == {"f1", "f2"}
AllPaths == Paths \cup {"generated"}

NoRecipe == [given |-> FALSE, commands |-> <<>>, resources |-> <<>>]

NoFile(d) ==
    [exists |-> FALSE, tip_cursor |-> FreshState(d).tip_cursor, well_usage |-> {}]

\* lines 221-232: the parameters of a call of yaml_to_protocol
Call(config_path, a) ==
    [config_path |-> config_path, resource_file |-> a.resource_file,
     resource_file_out |-> a.resource_file_out,
     write_resources |-> a.write_resources,
     overwrite_resources_json |-> a.overwrite_resources_json,
     reset_when_done |-> a.reset_when_done]

NoArgs ==
    Call(NoRecipe,
         [resource_file |-> "None", resource_file_out |-> "None",
          write_resources |-> FALSE, overwrite_resources_json |-> FALSE,
          reset_when_done |-> FALSE])

\* the ResourceManager is constructed without the resource file
ManagerFileNone(self_resource_file) == "None"

\* lines 78-80: the file the ResourceManager is constructed with
ManagerFile(self_resource_file) == self_resource_file

\* lines 74-83, with the commands as _postprocess_commands left them
Loaded(named, config_path, file, d, disk, post) ==
    [self |-> [named EXCEPT
                 !.config.loaded = TRUE,
                 !.resources = load_resources(ReadTables(config_path.resources)),
                 !.rm = ResourceManager(d, ManagerFile(file), disk),
                 !.commands = post.commands],
     raised |-> post.raised, asked |-> post.asked, constructed |-> TRUE]

\* lines 57-83; self is the object's fields, the result its fields after
\* the call, the exception that ended it and the columns it asked for
load_config(self, config_path, file, d, disk) ==
    IF ~config_path.given
    THEN [self |-> [self EXCEPT !.config.path = config_path,
                                !.resource_file = file],
          raised |-> "ConfigError", asked |-> <<>>, constructed |-> FALSE]
    ELSE Loaded([self EXCEPT !.config.path = config_path,
                             !.resource_file = file],
                config_path, file, d, disk,
                _postprocess_commands(config_path.commands,
                                      load_resources(ReadTables(config_path.resources))))

\* lines 258-259
LoadIfNone(self, config_path, d, disk) ==
    IF ~self.config.loaded
    THEN load_config(self, config_path, "None", d, disk)
    ELSE [self |-> self, raised |-> "none", asked |-> <<>>,
          constructed |-> FALSE]

\* lines 261-262
LoadResourceFile(first, file, d, disk) ==
    IF first.raised = "none" /\ file # "None"
       /\ first.self.resource_file = "None"
    THEN load_config(first.self, first.self.config.path, file, d, disk)
    ELSE first

\* lines 258-262: what yaml_to_protocol loads before it compiles
EnsureLoaded(self, config_path, file, d, disk) ==
    LoadResourceFile(LoadIfNone(self, config_path, d, disk), file, d, disk)

\* the resource manager is dumped nowhere
DumpTargetNowhere(a, self_resource_file) == "NoDump"

\* the resource file of the call outranks resource_file_out
DumpTargetFileFirst(a, self_resource_file) ==
    IF a.resource_file # "None" /\ a.write_resources THEN a.resource_file
    ELSE IF a.resource_file_out # "None" THEN a.resource_file_out
    ELSE IF self_resource_file # "None" /\ a.write_resources
            /\ a.overwrite_resources_json
    THEN self_resource_file
    ELSE IF a.write_resources THEN "None"
    ELSE "NoDump"

\* lines 324-345: where the resource manager is dumped; "NoDump" when nowhere
DumpTarget(a, self_resource_file) ==
    IF a.resource_file_out # "None" THEN a.resource_file_out
    ELSE IF a.resource_file # "None" /\ a.write_resources THEN a.resource_file
    ELSE IF self_resource_file # "None" /\ a.write_resources
            /\ a.overwrite_resources_json
    THEN self_resource_file
    ELSE IF a.write_resources THEN "None"
    ELSE "NoDump"

Self == [config |-> config, commands |-> commands, resources |-> resources,
         resource_file |-> resource_file, rm |-> rm]

NoSelf(d) ==
    [config |-> [loaded |-> FALSE, path |-> NoRecipe], commands |-> <<>>,
     resources |-> <<>>, resource_file |-> "None",
     rm |-> ResourceManager(d, "None", [q \in AllPaths |-> NoFile(d)])]

\* the tips an action sequence picks
Picks(actions) ==
    {<<actions[k].slot, actions[k].index>> :
        k \in {j \in 1..Len(actions) : actions[j].a = "PickTip"}}

\* observer: the resource file the object was loaded with, the tips the
\* compilation that wrote it picked, and the cursors it holds
Based(h, file, disk, d) ==
    [h EXCEPT !.base_exists = file # "None" /\ disk[file].exists,
              !.base_picked = IF file # "None" /\ disk[file].exists
                              THEN h.wrote[file] ELSE {},
              !.base_cursor = IF file # "None" THEN disk[file].tip_cursor
                              ELSE FreshState(d).tip_cursor]

SetSelf(new) ==
    /\ config' = new.config
    /\ commands' = new.commands
    /\ resources' = new.resources
    /\ resource_file' = new.resource_file
    /\ rm' = new.rm

\* lines 47-55: the fields after __init__
Constructed(config_path, file, d, disk) ==
    IF config_path.given
    THEN load_config([NoSelf(d) EXCEPT !.resource_file = file], config_path,
                     file, d, disk)
    ELSE [self |-> [NoSelf(d) EXCEPT !.resource_file = file],
          raised |-> "none", asked |-> <<>>, constructed |-> FALSE]

NewCompilerDone(got) ==
    /\ SetSelf(IF got.raised = "none" THEN got.self ELSE NoSelf(Deck))
    /\ err' = got.raised
    /\ pc' = IF got.raised = "none" THEN "ready" ELSE "start"
    /\ lookups' = got.asked
    /\ hist' = [Based(hist, IF got.constructed THEN got.self.resource_file
                             ELSE "None", files, Deck)
                EXCEPT !.objects = @ + 1, !.compiled = 0,
                       !.recipe = got.self.config.path,
                       !.returned = "None"]

\* lines 28-55: ProtoPiler(config_path, resource_file=file)
NewCompiler(config_path, file) ==
    /\ pc \in {"start", "done", "failed"}
    /\ hist.objects < MaxRuns
    /\ NewCompilerDone(Constructed(config_path, file, Deck, files))
    /\ blk' = 0
    /\ pending' = <<>>
    /\ tip_loaded' = [m \in Mounts |-> FALSE]
    /\ out' = <<>>
    /\ args' = NoArgs
    /\ UNCHANGED <<files, artifact, deck>>

YamlLoaded(got) ==
    /\ SetSelf(got.self)
    /\ err' = got.raised
    /\ pc' = IF got.raised = "none" THEN "compiling" ELSE "failed"
    /\ lookups' = IF got.constructed THEN got.asked ELSE lookups
    /\ hist' = [(IF got.constructed
                  THEN Based(hist, got.self.resource_file, files, Deck)
                  ELSE hist)
                EXCEPT !.runs = @ + 1, !.compiled = @ + 1,
                       !.start_cursor = got.self.rm.tip_cursor,
                       !.recipe = IF got.constructed
                                  THEN got.self.config.path ELSE @,
                       !.before = got.self.commands,
                       !.returned = "None"]

\* lines 221-316 and 362-370: the call of yaml_to_protocol up to the loop
\* of _create_commands
yaml_to_protocol(config_path, a) ==
    /\ pc \in {"ready", "done", "failed"}
    /\ hist.runs < MaxRuns
    /\ YamlLoaded(EnsureLoaded(Self, config_path, a.resource_file, Deck, files))
    /\ blk' = 0
    /\ pending' = <<>>
    /\ tip_loaded' = [m \in Mounts |-> FALSE]
    /\ out' = <<>>
    /\ args' = Call(config_path, a)
    /\ UNCHANGED <<files, artifact, deck>>

NextBlockDone(got) ==
    /\ commands' = [commands EXCEPT ![blk + 1] = got.block]
    /\ pending' = got.transfers
    /\ err' = IF got.raised THEN "Broadcast" ELSE "none"
    /\ pc' = IF got.raised THEN "failed" ELSE "compiling"

\* lines 371-377: the next command block and the transfers it yields
NextBlock ==
    /\ pc = "compiling"
    /\ pending = <<>>
    /\ blk < Len(commands)
    /\ NextBlockDone(_process_instruction(commands[blk + 1]))
    /\ blk' = blk + 1
    /\ UNCHANGED <<config, resources, resource_file, rm, files, tip_loaded,
                   out, args, artifact, deck, lookups, hist>>

TransferDone(got) ==
    /\ rm' = got.rm
    /\ tip_loaded' = got.tip_loaded
    /\ out' = got.out
    /\ err' = got.raised
    /\ pc' = IF got.raised = "none" THEN "compiling" ELSE "failed"
    /\ pending' = IF got.raised = "none" THEN Tail(pending) ELSE pending

\* lines 378-455: one transfer of the block
Transfer ==
    /\ pc = "compiling"
    /\ pending # <<>>
    /\ TransferDone(TransferStep(
           [rm |-> rm, tip_loaded |-> tip_loaded, out |-> out,
            raised |-> "none", mount |-> "None"],
           Deck, Head(pending), commands[blk].drop_tip))
    /\ UNCHANGED <<config, commands, resources, resource_file, files, blk,
                   args, artifact, deck, lookups, hist>>

\* the file dump_resource_json writes
Written(target) == IF target = "None" THEN "generated" ELSE target

FinishDone(target, done) ==
    /\ out' = done
    /\ artifact' = [exists |-> TRUE, actions |-> done]
    /\ files' = IF target = "NoDump" THEN files
                ELSE dump_resource_json(rm, target, files)
    /\ hist' = IF target = "NoDump" THEN [hist EXCEPT !.returned = "None"]
               ELSE [hist EXCEPT !.wrote[Written(target)] = Picks(done),
                                 !.returned = Written(target)]

\* lines 457-464 and 317-350: the trailing drops, the protocol file, the
\* resource file, the reset
Finish ==
    /\ pc = "compiling"
    /\ pending = <<>>
    /\ blk = Len(commands)
    /\ FinishDone(DumpTarget(args, resource_file),
                  out \o TrailingDrops(tip_loaded))
    /\ tip_loaded' = [m \in Mounts |-> FALSE]
    /\ IF args.reset_when_done
       THEN /\ config' = [config EXCEPT !.loaded = FALSE]
            /\ commands' = <<>>
       ELSE UNCHANGED <<config, commands>>
    /\ pc' = "done"
    /\ err' = "none"
    /\ UNCHANGED <<resources, resource_file, rm, blk, pending, args, deck,
                   lookups>>

-----------------------------------------------------------------------------
(* The specifications.                                                     *)

InitObject(name) ==
    /\ deck = name
    /\ files = [q \in AllPaths |-> NoFile(DeckOf(name))]
    /\ blk = 0
    /\ pending = <<>>
    /\ tip_loaded = [m \in Mounts |-> FALSE]
    /\ out = <<>>
    /\ err = "none"
    /\ args = NoArgs
    /\ artifact = [exists |-> FALSE, actions |-> <<>>]
    /\ lookups = <<>>
    /\ hist = [wrote |-> [q \in AllPaths |-> {}], base_exists |-> FALSE,
               base_picked |-> {},
               base_cursor |-> FreshState(DeckOf(name)).tip_cursor,
               start_cursor |-> FreshState(DeckOf(name)).tip_cursor,
               objects |-> 0, runs |-> 0, compiled |-> 0,
               recipe |-> NoRecipe, before |-> <<>>, returned |-> "None"]

InitSelf(name) ==
    /\ config = NoSelf(DeckOf(name)).config
    /\ commands = NoSelf(DeckOf(name)).commands
    /\ resources = NoSelf(DeckOf(name)).resources
    /\ resource_file = NoSelf(DeckOf(name)).resource_file
    /\ rm = NoSelf(DeckOf(name)).rm

Init ==
    /\ pc = "start"
    /\ \E name \in Decks : InitObject(name) /\ InitSelf(name)

\* One compiler object: it is constructed, with or without a recipe and a
\* resource file, and compiles up to MaxRuns times.
Next ==
    \/ \E config_path \in Recipes \cup {NoRecipe}, file \in {"None", "f1"} :
           pc = "start" /\ NewCompiler(config_path, file)
    \/ \E a \in CompileArgs :
           \E config_path \in IF config.loaded THEN {config.path}
                               ELSE Recipes \cup {NoRecipe} :
               yaml_to_protocol(config_path, a)
    \/ NextBlock
    \/ Transfer
    \/ Finish

Spec == Init /\ [][Next]_vars

\* Compiler after compiler: each is constructed when the one before it has
\* compiled, and finds the resource files the earlier ones wrote.
NextRuns ==
    \/ \E config_path \in ShortRecipes \cup {NoRecipe}, file \in {"None", "f1"} :
           NewCompiler(config_path, file)
    \/ \E a \in CompileArgs :
           \E config_path \in IF config.loaded THEN {config.path}
                               ELSE ShortRecipes \cup {NoRecipe} :
               yaml_to_protocol(config_path, a)
    \/ NextBlock
    \/ Transfer
    \/ Finish

SpecRuns == Init /\ [][NextRuns]_vars

\* Compilers, loaded or not, whose calls name a recipe and a resource file.
NextCalls ==
    \/ \E config_path \in CallRecipes \cup {NoRecipe},
          file \in {"None", "f1", "f2"} :
           NewCompiler(config_path, file)
    \/ \E a \in CallArgs, config_path \in CallRecipes \cup {NoRecipe} :
           yaml_to_protocol(config_path, a)
    \/ NextBlock
    \/ Transfer
    \/ Finish

SpecCalls == Init /\ [][NextCalls]_vars

\* One object, constructed with or without a resource file, and calls that
\* say in every way where the resource manager goes.
NextDump ==
    \/ \E config_path \in DumpRecipes \cup {NoRecipe},
          file \in {"None", "f1", "f2"} :
           pc = "start" /\ NewCompiler(config_path, file)
    \/ \E a \in DumpArgs, config_path \in DumpRecipes \cup {NoRecipe} :
           yaml_to_protocol(config_path, a)
    \/ NextBlock
    \/ Transfer
    \/ Finish

SpecDump == Init /\ [][NextDump]_vars

\* One object on a deck with wellplates or on a deck without, and recipes
\* whose locations come with and without an alias.
InitSlots ==
    /\ pc = "start"
    /\ \E name \in {"A", "C"} : InitObject(name) /\ InitSelf(name)

NextSlots ==
    \/ \E config_path \in SlotRecipes :
           pc = "start" /\ NewCompiler(config_path, "None")
    \/ \E a \in CompileArgs : yaml_to_protocol(config.path, a)
    \/ NextBlock
    \/ Transfer
    \/ Finish

SpecSlots == InitSlots /\ [][NextSlots]_vars

\* One compiler object that compiles its recipe again and again.
NextAgain ==
    \/ \E config_path \in AgainRecipes, file \in {"None"} :
           pc = "start" /\ NewCompiler(config_path, file)
    \/ \E a \in FailArgs : yaml_to_protocol(config.path, a)
    \/ NextBlock
    \/ Transfer
    \/ Finish

SpecAgain == Init /\ [][NextAgain]_vars

\* One compiler object and recipes whose blocks fail.
NextFail ==
    \/ \E config_path \in FailRecipes \cup {NoRecipe}, file \in {"None", "f1"} :
           pc = "start" /\ NewCompiler(config_path, file)
    \/ \E a \in FailArgs :
           \E config_path \in IF config.loaded THEN {config.path}
                               ELSE FailRecipes \cup {NoRecipe} :
               yaml_to_protocol(config_path, a)
    \/ NextBlock
    \/ Transfer
    \/ Finish

SpecFail == Init /\ [][NextFail]_vars

\* The construction alone, with a recipe whose fields _postprocess_commands
\* has to resolve.
NextResolve ==
    \E config_path \in RawRecipes :
        hist.objects = 0 /\ NewCompiler(config_path, "None")

SpecResolve == Init /\ [][NextResolve]_vars

\* The construction alone, with a recipe whose source is a bracketed list
\* under an alias.
NextUnpack ==
    \E config_path \in BracketRecipes :
        hist.objects = 0 /\ NewCompiler(config_path, "None")

SpecUnpack == Init /\ [][NextUnpack]_vars

-----------------------------------------------------------------------------
(* Broadcasting alone: a loaded compiler whose recipe is one command block *)
(* with fields of every shape, and the step that broadcasts it.            *)

InitBroadcast ==
    /\ pc = "compiling"
    /\ InitObject("A")
    /\ \E b \in BroadcastBlocks :
        /\ config = [loaded |-> TRUE, path |-> Recipe(<<b>>)]
        /\ commands = <<b>>
    /\ resources = <<>>
    /\ resource_file = "None"
    /\ rm = NoSelf(DeckA).rm

SpecBroadcast == InitBroadcast /\ [][NextBlock]_vars

\* the block as the recipe gave it, and what the broadcast made of it
RawBlock == config.path.commands[1]
Broadcast == pc \in {"compiling", "failed"} /\ blk = 1
Fields(b) == <<b.volume, b.source, b.destination>>
LongLengths(b) == {len(Fields(b)[f]) : f \in {g \in 1..3 : IsList(Fields(b)[g])
                                                  /\ len(Fields(b)[g]) > 1}}
Singletons(b) == {f \in 1..3 : IsList(Fields(b)[f]) /\ len(Fields(b)[f]) = 1}
Collapsed(x) == IF IsList(x) /\ len(x) = 1 THEN x.l[1] ELSE x

\* what the k-th transfer is to carry of a field: the k-th element of a
\* list longer than one, the value or the only element otherwise
Carried(x, k) == IF IsList(x) /\ len(x) > 1 THEN x.l[k] ELSE Collapsed(x)
CarriedTransfer(b, k) ==
    <<Carried(b.volume, k), Carried(b.source, k), Carried(b.destination, k)>>
Lists3(b) == {f \in 1..3 : IsList(Fields(b)[f])}

\* C4: a command block with no list longer than one among volume, source
\* and destination, lists of one element taken as their element, yields
\* exactly one transfer, made of the three values.
OneTransfer ==
    (Broadcast /\ LongLengths(RawBlock) = {}) =>
        /\ err = "none"
        /\ pending = <<CarriedTransfer(RawBlock, 1)>>

\* C5: a command block with a list of n > 1 elements and a list of one
\* element yields exactly n transfers, each carrying the only element of
\* the short list, wherever the short list stands and however many
\* characters its element has.
SingletonCollapse ==
    (Broadcast /\ Singletons(RawBlock) # {}
     /\ Cardinality(LongLengths(RawBlock)) = 1) =>
        /\ err = "none"
        /\ \A n \in LongLengths(RawBlock) :
               pending = [k \in 1..n |-> CarriedTransfer(RawBlock, k)]

\* C6: a command block with two or more lists longer than one, not all of
\* the same length, fails with the error of the dimension and yields no
\* transfer, whatever the third field is.
AmbiguityRejected ==
    (Broadcast /\ Cardinality(LongLengths(RawBlock)) > 1) =>
        /\ pc = "failed" /\ err = "Broadcast"
        /\ pending = <<>>

\* C7: a command block with exactly one list, of n > 1 elements, and two
\* scalars yields exactly n transfers, the i-th made of the two scalars and
\* the i-th element of the list.
BroadcastOneList ==
    (Broadcast /\ Cardinality(Lists3(RawBlock)) = 1
     /\ Cardinality(LongLengths(RawBlock)) = 1) =>
        /\ err = "none"
        /\ \A n \in LongLengths(RawBlock) :
               pending = [k \in 1..n |-> CarriedTransfer(RawBlock, k)]

\* a block whose only list is the longest there is, of elements that
\* differ, has been broadcast
BroadcastOneListWitness ==
    /\ Broadcast /\ Cardinality(Lists3(RawBlock)) = 1
    /\ LongLengths(RawBlock) = {MaxLen}
    /\ Len(pending) = MaxLen
    /\ \E j, k \in 1..MaxLen : pending[j] # pending[k]

-----------------------------------------------------------------------------
(* The resolution of the fields when the recipe is loaded.                 *)

\* a recipe has been given to load_config, and load_config has returned
Resolved == pc = "ready" /\ config.loaded /\ hist.recipe = config.path
\* a recipe of at least one command has been given to load_config
Asked == pc \in {"ready", "start"} /\ hist.objects = 1 /\ hist.recipe.given
         /\ hist.recipe.commands # <<>>

\* the rows of a column of the table of the recipe
ColumnRows(column) == Tables[1].table[ColumnOf(Tables[1].table, column)].rows

\* one character that is no digit, then one to three digits
WellIdentifier(segment) ==
    /\ Len(segment) \in 2..4
    /\ segment[1] \notin Digits
    /\ isdigit(Rest(segment))

\* a field as a list of locations or as one location, brackets unpacked
Unpacked(field) ==
    IF field.t = "str" /\ Contains(field.s, <<":", "[">>)
    THEN ListV(_unpack_alias(field.s))
    ELSE field
\* the terminal segment of the field itself: what follows the last colon of
\* the location, or of the first location of a list
OwnSegment(field) ==
    IF IsList(Unpacked(field))
    THEN Last(split(Unpacked(field).l[1].s, Colon))
    ELSE Last(split(field.s, Colon))

\* the field after its resolution: one location per row of the column its
\* own terminal segment names, each under the alias of the field, when the
\* segment is no well identifier; the field itself otherwise
Expanded(field) ==
    IF WellIdentifier(OwnSegment(field)) THEN Unpacked(field)
    ELSE NewLocations(field, ColumnRows(OwnSegment(field)))

\* line 123 and the pattern agree on the kind of the segment
Agreed(field) ==
    WellIdentifier(OwnSegment(field)) <=> ~IsColumnName(OwnSegment(field))

\* C8: after a recipe is loaded, every command whose volume names a column,
\* the last and the others alike, has for its volume the values of that
\* column as integers, in the order of the rows.
VolumesResolved ==
    Resolved =>
        \A k \in 1..Len(config.path.commands) :
            config.path.commands[k].volume.t = "str" =>
                commands[k].volume
                    = IntVolumes(ColumnRows(config.path.commands[k].volume.s))

\* C9: the destination is expanded from a column of the table exactly when
\* its own terminal segment is no well identifier, and so is the source,
\* whatever the other field is; the locations produced stand under the
\* alias of the field expanded.  (Stated for the terminal segments on whose
\* kind line 123 and the pattern agree.)
OwnSegmentDecides ==
    Resolved =>
        \A k \in 1..Len(config.path.commands) :
            (Agreed(config.path.commands[k].source)
             /\ Agreed(config.path.commands[k].destination)) =>
                /\ commands[k].source
                       = Expanded(config.path.commands[k].source)
                /\ commands[k].destination
                       = Expanded(config.path.commands[k].destination)

\* C10: the terminal segment of a source is looked up as a column of the
\* table exactly when it is not one character that is no digit followed by
\* one to three digits.
WellPattern ==
    Asked =>
        ((\E j \in 1..Len(lookups) :
              lookups[j].block = 1 /\ lookups[j].field = "source")
         <=> ~WellIdentifier(OwnSegment(hist.recipe.commands[1].source)))

\* the elements that are not empty, in order
NonEmpty(elems) == SelectSeq(elems, LAMBDA e : e # <<>>)

\* the tokens the bracketed list stands for: an element under the alias of
\* the field, unless it has an alias of its own
Tokens(alias, elems) ==
    [k \in 1..Len(NonEmpty(elems)) |->
        StrV(IF Contains(NonEmpty(elems)[k], Colon) THEN NonEmpty(elems)[k]
             ELSE alias \o Colon \o NonEmpty(elems)[k])]

\* C11: a field "alias:[e1, ..., en]" is expanded to one token per element
\* that is not empty, in order: "alias:e" for an element without an alias,
\* the element itself when it has one; empty elements are dropped.
AliasExpansion ==
    \A e \in ElementLists :
        (Asked /\ hist.recipe.commands[1].source
                     = StrV(BracketField(<<"p">>, e))) =>
            /\ pc = "ready"
            /\ commands[1].source = ListV(Tokens(<<"p">>, e))

\* a list of the longest kind with an element under its own alias and an
\* empty last element has been expanded
AliasExpansionWitness ==
    /\ pc = "ready" /\ Asked
    /\ \E e \in ElementLists :
        /\ Len(e) = MaxLen /\ e[MaxLen] = <<>>
        /\ \E k \in 1..MaxLen : Contains(e[k], Colon)
        /\ hist.recipe.commands[1].source = StrV(BracketField(<<"p">>, e))
        /\ len(commands[1].source) = Len(NonEmpty(e))
        /\ len(commands[1].source) >= 2

-----------------------------------------------------------------------------
(* The commands across compilations.                                       *)

\* C13: a compilation leaves the volume, the source and the destination of
\* every command as it found them, so that the commands yield the same
\* transfers when the same object compiles them again.
CommandsUnchanged ==
    pc \in {"compiling", "done", "failed"} =>
        \A k \in 1..Len(commands) :
            /\ Fields(commands[k]) = Fields(hist.before[k])
            /\ _process_instruction(commands[k]).transfers
                   = _process_instruction(hist.before[k]).transfers

\* a call has loaded what it had to load and is about to compile
Started == pc = "compiling" /\ blk = 0 /\ out = <<>>

\* C14: a call of yaml_to_protocol that names a recipe compiles that recipe,
\* and a call that names a resource file starts from the state that file
\* holds, also when the object was loaded before with another recipe or
\* another resource file.
UsesWhatItIsGiven ==
    Started =>
        /\ args.config_path.given =>
               /\ config.path = args.config_path
               /\ commands = args.config_path.commands
        /\ (args.resource_file # "None" /\ files[args.resource_file].exists) =>
               rm = ResourceManager(Deck, args.resource_file, files)

-----------------------------------------------------------------------------
(* The two outcomes of a compilation.                                      *)

\* the resource manager as dump_resource_json writes it
Snapshot(state) ==
    [exists |-> TRUE, tip_cursor |-> state.tip_cursor,
     well_usage |-> state.well_usage]

\* the call asked for the resource file to be written
Requested(a) == a.write_resources \/ a.resource_file_out # "None"

Failures ==
    {"ConfigError", "NoPipette", "Broadcast", "Location", "NoTip",
     "TypeError", "UnboundLocalError", "KeyError", "AttributeError",
     "IndexError", "NameError", "ValueError"}

\* a step that ends a call with success writes the whole protocol and, when
\* asked, the resource manager as it is then; any other step writes nothing
WritesAtTheEnd ==
    IF pc' = "done" /\ pc = "compiling"
    THEN /\ artifact' = [exists |-> TRUE, actions |-> out']
         /\ Requested(args) => \E q \in AllPaths : files'[q] = Snapshot(rm')
    ELSE artifact' = artifact /\ files' = files

\* C12: a call of yaml_to_protocol ends either with success, the whole
\* protocol and (when asked for) the resource file written, or with an
\* error, and then neither a protocol nor a resource file is written, also
\* when earlier blocks compiled and took tips.
TwoOutcomes ==
    /\ [](pc = "failed" => err \in Failures)
    /\ [](pc = "done" => err = "none" /\ artifact = [exists |-> TRUE,
                                                     actions |-> out])
    /\ [][WritesAtTheEnd]_vars

\* a compilation failed in its second block or later after it had picked
\* tips, and there is no protocol and no resource file
TwoOutcomesWitness ==
    /\ pc = "failed" /\ blk >= 2 /\ Picks(out) # {}
    /\ args.write_resources
    /\ ~artifact.exists
    /\ \A q \in AllPaths : ~files[q].exists

-----------------------------------------------------------------------------
(* The tip state of the mounts.                                            *)

Count(actions, kind, mount) ==
    Cardinality({k \in 1..Len(actions) :
                    actions[k].a = kind /\ actions[k].mount = mount})

\* the mount holds a tip after the first n actions: its last PickTip or
\* DropTip among them is a PickTip
TipLoadedAfter(actions, n, mount) ==
    \E k \in 1..n :
        /\ actions[k].a = "PickTip" /\ actions[k].mount = mount
        /\ \A j \in (k + 1)..n :
               ~(actions[j].a = "DropTip" /\ actions[j].mount = mount)

\* C1: when a compilation succeeds, each mount has as many PickTip as
\* DropTip actions in the protocol written (the trailing drops counted), and
\* after the last action no mount holds a tip.
TipBalance ==
    pc = "done" =>
        /\ artifact.exists /\ artifact.actions = out
        /\ \A m \in Mounts :
            /\ Count(out, "PickTip", m) = Count(out, "DropTip", m)
            /\ ~TipLoadedAfter(out, Len(out), m)
            /\ ~tip_loaded[m]

\* a compilation succeeded whose last block does not drop the tip, so that
\* the trailing drop closed it, and some mount picked more than one tip
TipBalanceWitness ==
    /\ pc = "done"
    /\ commands # <<>> /\ ~commands[Len(commands)].drop_tip
    /\ out # <<>> /\ out[Len(out)].a = "DropTip"
    /\ \E m \in Mounts : Count(out, "PickTip", m) >= 2

Sum(f) ==
    LET RECURSIVE Add(_)
        Add(S) == IF S = {} THEN 0
                  ELSE LET x == CHOOSE y \in S : TRUE IN f[x] + Add(S \ {x})
    IN  Add(DOMAIN f)

PickPositions == {k \in 1..Len(out) : out[k].a = "PickTip"}

\* C2: within one compilation every PickTip comes from one get_next_tip call
\* made while its mount holds no tip, no two PickTip name the same well of the
\* same rack, every well index is below the capacity of the rack, and a
\* compilation that finds all fitting racks exhausted fails.
TipAllocation ==
    pc \in {"compiling", "done", "failed"} =>
        /\ \A k \in PickPositions :
            /\ ~TipLoadedAfter(out, k - 1, out[k].mount)
            /\ out[k].index < TipCapacity
            /\ \A j \in PickPositions :
                   j # k => <<out[j].slot, out[j].index>>
                            # <<out[k].slot, out[k].index>>
        /\ Sum([r \in RackSlots(Deck) |->
                   rm.tip_cursor[r] - hist.start_cursor[r]])
           = Cardinality(PickPositions)
        /\ err = "NoTip" =>
            /\ pc = "failed"
            /\ \A k \in 1..Len(find_valid_tipracks(Deck,
                       determine_pipette(Deck, Head(pending)[1]).mount)) :
                   rm.tip_cursor[find_valid_tipracks(Deck,
                       determine_pipette(Deck, Head(pending)[1]).mount)[k]]
                   >= TipCapacity

\* both pipettes picked from the same rack, and the compilation then failed
\* for want of a tip
TipAllocationWitness ==
    /\ pc = "failed" /\ err = "NoTip"
    /\ \E j, k \in PickPositions :
           out[j].mount # out[k].mount /\ out[j].slot = out[k].slot

\* the first PickTip of the compilation on the rack
FirstPickOn(rack) ==
    CHOOSE k \in PickPositions :
        /\ out[k].slot = rack
        /\ \A j \in PickPositions : out[j].slot = rack => k <= j

-----------------------------------------------------------------------------
(* Where the resource snapshot goes.                                       *)

\* the destinations the priority names for a call on an object whose loaded
\* resource file is loaded_file
SnapshotFiles(a, loaded_file) ==
    IF a.resource_file_out # "None" THEN {a.resource_file_out}
    ELSE IF ~a.write_resources THEN {}
    ELSE IF a.resource_file # "None" THEN {a.resource_file}
    ELSE IF loaded_file # "None" /\ a.overwrite_resources_json
    THEN {loaded_file}
    ELSE {"generated"}

Succeeds == pc = "compiling" /\ pc' = "done"

\* C15: the step that ends a successful compilation writes the snapshot of
\* the resource manager to the one destination the priority names
\* (resource_file_out; else the resource_file of the call when writing; else
\* the loaded resource file when writing and overwriting; else a generated
\* file when writing) and returns its path, and leaves every other file as
\* it was; when write_resources is false and no resource_file_out is given
\* it changes no file and returns None.
SnapshotPriority ==
    [][Succeeds =>
        /\ Cardinality(SnapshotFiles(args, resource_file)) <= 1
        /\ \A q \in SnapshotFiles(args, resource_file) :
               files'[q] = Snapshot(rm) /\ hist'.returned = q
        /\ \A q \in AllPaths \ SnapshotFiles(args, resource_file) :
               files'[q] = files[q]
        /\ (~args.write_resources /\ args.resource_file_out = "None") =>
               files' = files /\ hist'.returned = "None"]_vars

\* a call that names both a resource_file_out and another resource_file has
\* written the first and left the second absent, and a call on an object
\* loaded with a resource file has written the resource_file it names
SnapshotPriorityWitness ==
    /\ pc = "done"
    /\ args.write_resources
    /\ args.resource_file = "f1"
    /\ args.resource_file_out = "f2"
    /\ hist.returned = "f2"
    /\ files["f2"] = Snapshot(rm)
    /\ ~files["f1"].exists
    /\ Picks(out) # {}

-----------------------------------------------------------------------------
(* The shape of a transfer.                                                *)

OtherMount(mount) == IF mount = "left" THEN "right" ELSE "left"

\* the actions a step has appended to out
Appended == SubSeq(out', Len(out) + 1, Len(out'))

\* every Aspirate of the sequence comes while its mount holds a tip
AspirateHoldsTip(actions) ==
    \A k \in 1..Len(actions) :
        actions[k].a = "Aspirate" =>
            TipLoadedAfter(actions, k - 1, actions[k].mount)

\* every Aspirate of the sequence is followed at once by a Dispense of the
\* same volume on the same mount
AspirateThenDispense(actions) ==
    \A k \in 1..Len(actions) :
        actions[k].a = "Aspirate" =>
            /\ k < Len(actions)
            /\ actions[k + 1].a = "Dispense"
            /\ actions[k + 1].mount = actions[k].mount
            /\ actions[k + 1].volume = actions[k].volume

\* a transfer acts on one mount and leaves the other mount's tip as it was
OneMountActs ==
    (pc = "compiling" /\ pc' = "compiling" /\ out' # out) =>
        \E m \in Mounts :
            /\ \A k \in 1..Len(Appended) : Appended[k].mount = m
            /\ \E k \in 1..Len(Appended) : Appended[k].a = "Aspirate"
            /\ tip_loaded'[OtherMount(m)] = tip_loaded[OtherMount(m)]
            /\ TipLoadedAfter(out', Len(out'), OtherMount(m))
                   <=> TipLoadedAfter(out, Len(out), OtherMount(m))
            /\ TipLoadedAfter(out, Len(out), OtherMount(m))
                   <=> tip_loaded[OtherMount(m)]

\* C16: in the action sequence of a compilation every Aspirate comes while
\* its mount holds a tip (a PickTip of the mount precedes it with no DropTip
\* of the mount in between) and is followed at once by a Dispense of the same
\* volume on the same mount, and a transfer leaves the tip of the other
\* mount as it was.
TransferShape ==
    /\ [](pc \in {"compiling", "done"} =>
              AspirateHoldsTip(out) /\ AspirateThenDispense(out))
    /\ [][OneMountActs]_vars

\* a compilation has ended in which a mount aspirated while the other mount
\* still held the tip of an earlier transfer
TransferShapeWitness ==
    /\ pc = "done"
    /\ \E k \in 1..Len(out) :
           /\ out[k].a = "Aspirate"
           /\ TipLoadedAfter(out, k, out[k].mount)
           /\ TipLoadedAfter(out, k, OtherMount(out[k].mount))

-----------------------------------------------------------------------------
(* The deck slots of the transfers.                                        *)

\* the slots of the deck that hold a labware
Held(d) == {d.labware[k].slot : k \in 1..Len(d.labware)}

\* C17: every Aspirate and Dispense of a protocol that was written names a
\* deck slot that holds a labware, never None, also when the location came
\* without an alias on a deck where no labware name contains "well".
SlotsHoldLabware ==
    pc = "done" =>
        \A k \in 1..Len(out) :
            out[k].a \in {"Aspirate", "Dispense"} => out[k].slot \in Held(Deck)

====
